---- MODULE Spec2Model ----
(***************************************************************************)
(* Anomaly detection and alert dispatch engine of the monitoring service.  *)
(*                                                                         *)
(* Z-scores are fixed-point numbers in hundredths (2.5 is 250), the        *)
(* precision AnomalyDetail.z_score is rounded to.  The monotonic clock is  *)
(* an integer number of seconds.                                           *)
(***************************************************************************)
EXTENDS Integers, Sequences, FiniteSets, TLC

\* ---------------------------------------------------------------- bounds
\* Number of monitored statuses a result carries (a prefix of ALERT_STATUSES).
MaxStatuses == 2
\* Largest value of the monotonic clock.
MaxTime == 600
\* Granularity by which the clock is observed to advance.
ClockStep == 300
\* Number of dispatcher calls (dispatch, reset_cooldowns) in one run.
MaxCalls == 2

\* ------------------------------------------------------ program constants
DEFAULT_COOLDOWN_SECONDS == 300
\* abs(z_score) > 4.0, in hundredths
CRITICAL_Z == 400
\* abs(z_score) > 2.5, in hundredths
WARNING_Z == 250

ALERT_STATUSES == <<"denied", "failed", "reversed", "backend_reversed", "approved">>

\* The monitored statuses of the model, in declaration order.
Statuses == {ALERT_STATUSES[i] : i \in 1..MaxStatuses}

\* The severity enumeration: NORMAL < WARNING < CRITICAL.
Severities == {"NORMAL", "WARNING", "CRITICAL"}

\* Values time.monotonic() can return.
Times == {t \in 0..MaxTime : t % ClockStep = 0}

\* Constructor arguments used for cooldown_seconds: 0 (no cooldown) and the default.
CooldownChoices == {0, DEFAULT_COOLDOWN_SECONDS}

\* Rounded z-scores of the details flagged is_anomalous: CRITICAL (on the
\* negative side), exactly at the WARNING boundary, WARNING.
AnomalousZ == {-500, 250, 300}
\* Rounded z-scores of the details not flagged.
QuietZ == {-500}
ZScores == AnomalousZ \cup QuietZ

\* The dispatchers that live as long as the process: the scheduler's
\* (alert_loop) and the consumer's (telemetry.init).
Instances == {"scheduler", "consumer"}
\* The evaluation paths; /alerts/evaluate builds a dispatcher per request.
Paths == Instances \cup {"evaluate"}

Abs(x) == IF x < 0 THEN -x ELSE x

\* ------------------------------------------------------------ data model
\* AnomalyDetail, reduced to the fields dispatch reads for its decisions.
AnomalyDetail ==
    {d \in [status : Statuses, z_score : ZScores, is_anomalous : BOOLEAN] :
        d.z_score \in (IF d.is_anomalous THEN AnomalousZ ELSE QuietZ)}

\* Sequences of details, one per monitored status, in declaration order.
DetailSeqs ==
    {ds \in [1..MaxStatuses -> AnomalyDetail] :
        \A i \in 1..MaxStatuses : ds[i].status = ALERT_STATUSES[i]}

\* AnomalyResult as dispatch receives it.
AnomalyResult == [severity : Severities, anomalies : DetailSeqs]

\* The z_score evaluate_single reports for a problem status seen without a
\* baseline (10.0), in hundredths.
NO_BASELINE_Z == 1000

\* The AnomalyResult built by /alerts/evaluate from an anomalous verdict: one
\* detail with is_anomalous = True; WARNING with a z_score that rounds to 2.5
\* or more, CRITICAL with the no-baseline z_score.
EvaluateResults ==
    {[severity |-> "WARNING",
      anomalies |-> <<[status |-> s, z_score |-> z, is_anomalous |-> TRUE]>>] :
        s \in Statuses, z \in {zz \in AnomalousZ : zz > 0}}
    \cup
    {[severity |-> "CRITICAL",
      anomalies |-> <<[status |-> s, z_score |-> NO_BASELINE_Z, is_anomalous |-> TRUE]>>] :
        s \in Statuses}

\* An empty _last_alerted dict.
EmptyTable == <<>>

\* PolicyAnomalyDetector(z_score_threshold, critical_threshold, min_history).
\* Thresholds are fixed-point numbers in thousandths (2.5 is 2500), so that a
\* threshold and a z-score finer than the two decimals of AnomalyDetail.z_score
\* can be told apart.  The first is the default detector but for a
\* min_history of 4; the second has a warning threshold that is no multiple
\* of 0.01.
DetectorConfigs ==
    {[z_score_threshold |-> 2500, critical_threshold |-> 4000, min_history |-> 4],
     [z_score_threshold |-> 2496, critical_threshold |-> 4000, min_history |-> 4]}

\* PolicyAnomalyDetector() as alert_loop builds it.
DefaultDetector ==
    [z_score_threshold |-> 2500, critical_threshold |-> 4000, min_history |-> 4]

\* An empty dict.
EmptyDict == <<>>

\* A store without data: get_status_counts_at and get_history_window return
\* nothing.
EmptyStore == [current_counts |-> EmptyDict, history |-> <<>>]

\* No detector call or tick has run.
NoTick ==
    [op |-> "none", skipped |-> FALSE, result |-> <<>>, gauges |-> 0,
     dispatch_calls |-> 0, raised |-> FALSE, dispatched |-> <<>>, logs |-> <<>>,
     incs |-> <<>>, started |-> <<>>, before |-> EmptyTable, clock |-> <<>>,
     sinks |-> <<>>, status |-> "", count |-> 0,
     gauge_calls |-> 0, fault |-> "none", faults |-> <<>>, response |-> <<>>,
     inserted |-> <<>>]

\* alert_loop is not running.
NoLoop == [phase |-> "none", worker |-> "idle", active |-> 0, stop |-> "none"]

\* ------------------------------------------------------ AlertDispatcher
\* _severity_for_detail: map a detail's z-score to severity.
SeverityForDetail(detail) ==
    IF Abs(detail.z_score) > CRITICAL_Z THEN "CRITICAL"
    ELSE IF Abs(detail.z_score) > WARNING_Z THEN "WARNING"
    ELSE "NORMAL"

AlertKey_ByStatus(detail) == <<detail.status, "ANY">>

AlertKey_ByDirection(detail) ==
    <<detail.status,
      IF detail.z_score < 0 THEN "DROP" ELSE SeverityForDetail(detail)>>

\* key = (detail.status, severity)
AlertKey(detail) == <<detail.status, SeverityForDetail(detail)>>

\* self._last_alerted.get(key, 0)
LastAlerted(table, key) ==
    IF key \in DOMAIN table THEN table[key] ELSE 0

InCooldown_Reversed(t, last, cooldown) == (last - t) < cooldown

InCooldown_Inclusive(t, last, cooldown) == (t - last) <= cooldown

\* (now - last) < self.cooldown_seconds
InCooldown(t, last, cooldown) == (t - last) < cooldown

\* self._last_alerted[key] = now
SetLastAlerted(table, key, t) ==
    [k \in (DOMAIN table) \cup {key} |-> IF k = key THEN t ELSE table[k]]

\* The log call of one dispatched detail: logger.critical for CRITICAL,
\* logger.warning for WARNING, nothing otherwise.
AlertLogs(detail, severity) ==
    IF severity = "CRITICAL"
    THEN <<[level |-> "CRITICAL", alert |-> TRUE, status |-> detail.status, severity |-> severity]>>
    ELSE IF severity = "WARNING"
    THEN <<[level |-> "WARNING", alert |-> TRUE, status |-> detail.status, severity |-> severity]>>
    ELSE <<>>

\* alert_info, with the monotonic time of the dispatch kept alongside.
AlertInfo(detail, severity, t) ==
    [status |-> detail.status, severity |-> severity, z_score |-> detail.z_score, at |-> t]

\* The state a dispatch call carries through its loop: the cooldown table,
\* the records to return, the logs emitted and the counter increments made.
DispatchStart(table) ==
    [table |-> table, dispatched |-> <<>>, logs |-> <<>>, incs |-> <<>>]

DispatchDetail_NoRecord(st, detail, t, cooldown) ==
    IF ~detail.is_anomalous THEN st
    ELSE
    LET severity == SeverityForDetail(detail)
        key == AlertKey(detail)
    IN  IF InCooldown(t, LastAlerted(st.table, key), cooldown) THEN st
        ELSE [table |-> st.table,
              dispatched |-> Append(st.dispatched, AlertInfo(detail, severity, t)),
              logs |-> st.logs \o AlertLogs(detail, severity),
              incs |-> Append(st.incs, <<detail.status, severity>>)]

\* One iteration of the loop of dispatch over result.anomalies, with t the
\* value time.monotonic() returns in it.
DispatchDetail(st, detail, t, cooldown) ==
    IF ~detail.is_anomalous THEN st
    ELSE
    LET severity == SeverityForDetail(detail)
        key == AlertKey(detail)
    IN  IF InCooldown(t, LastAlerted(st.table, key), cooldown) THEN st
        ELSE [table |-> SetLastAlerted(st.table, key, t),
              dispatched |-> Append(st.dispatched, AlertInfo(detail, severity, t)),
              logs |-> st.logs \o AlertLogs(detail, severity),
              incs |-> Append(st.incs, <<detail.status, severity>>)]

RECURSIVE DispatchLoop(_, _, _, _, _)
\* for detail in result.anomalies: ...; clock[i] is the clock in iteration i.
DispatchLoop(st, anomalies, clock, cooldown, i) ==
    IF i > Len(anomalies) THEN st
    ELSE DispatchLoop(DispatchDetail(st, anomalies[i], clock[i], cooldown),
                      anomalies, clock, cooldown, i + 1)

DispatchResult_NoEarlyReturn(table, result, clock, cooldown) ==
    DispatchLoop(DispatchStart(table), result.anomalies, clock, cooldown, 1)

\* AlertDispatcher.dispatch(result) on a dispatcher whose cooldown table is `table`.
DispatchResult(table, result, clock, cooldown) ==
    IF result.severity = "NORMAL" THEN DispatchStart(table)
    ELSE DispatchLoop(DispatchStart(table), result.anomalies, clock, cooldown, 1)

\* The clock readings of one call over n details: the clock may advance one
\* step between two iterations.
ClockReadings(t, n) ==
    {[i \in 1..n |-> IF i <= k THEN t ELSE t + ClockStep] :
        k \in {kk \in 0..n : kk = n \/ (kk >= 1 /\ t + ClockStep <= MaxTime)}}

\* ------------------------------------------------------------------ state
VARIABLES
    now,              \* time.monotonic()
    cooldown_seconds, \* AlertDispatcher.cooldown_seconds of each path's dispatcher
    last_alerted,     \* AlertDispatcher._last_alerted of each path's dispatcher
    alerts,           \* per path and key, when the path last dispatched an alert (cleared by its reset)
    rearmed,          \* the dispatchers whose most recent call was reset_cooldowns
    last_call,        \* the call that has just run: its arguments, what it returned and did
    calls,            \* number of calls made
    pc,               \* where each caller of a shared dispatcher is in dispatch
    frame,            \* the locals of dispatch of each caller of a shared dispatcher
    emitted,          \* the alerts dispatched by the callers of a shared dispatcher
    detector,         \* the PolicyAnomalyDetector: its thresholds and min_history
    store,            \* what the store returns: the current counts and the history window
    tick,             \* the detector call or scheduler tick that has just run
    posts,            \* the webhook POST threads started and what became of each
    loop              \* alert_loop: the scheduler task, its worker thread, the stop request

\* The state of the detection engine around the dispatchers.
engineVars == <<detector, store, tick, posts, loop>>

vars == <<now, cooldown_seconds, last_alerted, alerts, rearmed, last_call, calls,
          pc, frame, emitted, detector, store, tick, posts, loop>>

\* The callers of a dispatcher that the scheduler and ad-hoc callers share.
Callers == {"scheduler", "adhoc"}
\* The dispatcher they share.
Shared == "scheduler"

NoCall ==
    [op |-> "none", path |-> "none", result |-> <<>>,
     before |-> [p \in Paths |-> EmptyTable], earlier |-> [p \in Paths |-> EmptyTable],
     rearmed |-> FALSE, dispatched |-> <<>>, logs |-> <<>>, incs |-> <<>>]

NoFrame == [result |-> <<>>, i |-> 0, t |-> 0, dispatched |-> <<>>]

\* AlertDispatcher.__init__ for the two long-lived dispatchers (the consumer's
\* is built with the default cooldown); the clock has whatever value it has
\* when the process starts.
Init ==
    /\ now \in Times
    /\ cooldown_seconds \in
         {f \in [Paths -> CooldownChoices] :
             /\ f["evaluate"] = DEFAULT_COOLDOWN_SECONDS
             /\ f["consumer"] = DEFAULT_COOLDOWN_SECONDS}
    /\ last_alerted = [p \in Paths |-> EmptyTable]
    /\ alerts = [p \in Paths |-> EmptyTable]
    /\ rearmed = {}
    /\ last_call = NoCall
    /\ calls = 0
    /\ pc = [c \in Callers |-> "idle"]
    /\ frame = [c \in Callers |-> NoFrame]
    /\ emitted = {}
    /\ detector = DefaultDetector
    /\ store = EmptyStore
    /\ tick = NoTick
    /\ posts = <<>>
    /\ loop = NoLoop

RECURSIVE NoteAlerts(_, _, _)
\* The alert history after the records dispatched[i..] are added to it.
NoteAlerts(history, dispatched, i) ==
    IF i > Len(dispatched) THEN history
    ELSE NoteAlerts(SetLastAlerted(history, <<dispatched[i].status, dispatched[i].severity>>,
                                   dispatched[i].at),
                    dispatched, i + 1)

\* No call is running: the previous one has returned to its caller.
Idle == last_call.op = "none"

\* What a call leaves in last_call.
CallRecord(path, result, out) ==
    [op |-> "dispatch", path |-> path, result |-> result,
     before |-> last_alerted, earlier |-> alerts, rearmed |-> path \in rearmed,
     dispatched |-> out.dispatched, logs |-> out.logs, incs |-> out.incs]

\* dispatcher.dispatch(result) on the scheduler's or the consumer's dispatcher.
Dispatch(path, result, clock) ==
    LET out == DispatchResult(last_alerted[path], result, clock, cooldown_seconds[path])
    IN  /\ Idle
        /\ calls < MaxCalls
        /\ calls' = calls + 1
        /\ last_alerted' = [last_alerted EXCEPT ![path] = out.table]
        /\ now' = clock[Len(clock)]
        /\ alerts' = [alerts EXCEPT ![path] = NoteAlerts(@, out.dispatched, 1)]
        /\ rearmed' = rearmed \ {path}
        /\ last_call' = CallRecord(path, result, out)
        /\ UNCHANGED <<engineVars, cooldown_seconds, pc, frame, emitted>>

EvaluateDispatch_SharedDispatcher(result) ==
    LET out == DispatchResult(last_alerted["scheduler"], result, <<now>>, DEFAULT_COOLDOWN_SECONDS)
    IN  /\ Idle
        /\ calls < MaxCalls
        /\ calls' = calls + 1
        /\ last_alerted' = [last_alerted EXCEPT !["scheduler"] = out.table]
        /\ alerts' = [alerts EXCEPT !["evaluate"] = NoteAlerts(@, out.dispatched, 1)]
        /\ last_call' = CallRecord("evaluate", result, out)
        /\ UNCHANGED <<engineVars, now, cooldown_seconds, rearmed, pc, frame, emitted>>

\* evaluate_transaction: dispatcher = AlertDispatcher(); dispatcher.dispatch(anomaly_result)
EvaluateDispatch(result) ==
    LET out == DispatchResult(EmptyTable, result, <<now>>, DEFAULT_COOLDOWN_SECONDS)
    IN  /\ Idle
        /\ calls < MaxCalls
        /\ calls' = calls + 1
        /\ last_alerted' = [last_alerted EXCEPT !["evaluate"] = out.table]
        /\ alerts' = [alerts EXCEPT !["evaluate"] = NoteAlerts(@, out.dispatched, 1)]
        /\ last_call' = CallRecord("evaluate", result, out)
        /\ UNCHANGED <<engineVars, now, cooldown_seconds, rearmed, pc, frame, emitted>>

\* AlertDispatcher.reset_cooldowns()
ResetCooldowns(path) ==
    /\ Idle
    /\ calls < MaxCalls
    /\ calls' = calls + 1
    /\ last_alerted' = [last_alerted EXCEPT ![path] = EmptyTable]
    /\ alerts' = [alerts EXCEPT ![path] = EmptyTable]
    /\ rearmed' = rearmed \cup {path}
    /\ last_call' = [NoCall EXCEPT !.op = "reset", !.path = path, !.before = last_alerted,
                                   !.earlier = alerts]
    /\ UNCHANGED <<engineVars, now, cooldown_seconds, pc, frame, emitted>>

\* The call returns to its caller; the dispatcher of an /alerts/evaluate
\* request is dropped with the request.
Return ==
    /\ ~Idle
    /\ last_call' = NoCall
    /\ last_alerted' = [last_alerted EXCEPT !["evaluate"] = EmptyTable]
    /\ UNCHANGED <<engineVars, now, cooldown_seconds, alerts, rearmed, calls, pc, frame, emitted>>

\* The monotonic clock advances.
Advance ==
    /\ Idle
    /\ now + ClockStep <= MaxTime
    /\ now' = now + ClockStep
    /\ UNCHANGED <<engineVars, cooldown_seconds, last_alerted, alerts, rearmed, last_call, calls,
                   pc, frame, emitted>>

Next ==
    \/ \E path \in Instances, result \in AnomalyResult :
         \E clock \in ClockReadings(now, Len(result.anomalies)) : Dispatch(path, result, clock)
    \/ \E result \in EvaluateResults : EvaluateDispatch(result)
    \/ \E path \in Instances : ResetCooldowns(path)
    \/ Return
    \/ Advance

\* The process as wired by main.py, telemetry.py and routes/alerts.py: one
\* dispatcher per path, each used by one thread at a time.
Spec == Init /\ [][Next]_vars

\* ------------------------------------- one dispatcher, concurrent callers
\* Two threads call dispatch on the same AlertDispatcher.  A thread can be
\* preempted between the cooldown check (lines 66-69) and the statement that
\* records the dispatch (line 71); dispatch takes no lock.

\* What each caller passes to dispatch: the scheduler a detector result that
\* is not NORMAL (run_alert_check), the ad-hoc caller the one-detail result of
\* an anomalous verdict (evaluate_transaction).
SharedInputs(c) ==
    IF c = "adhoc" THEN EvaluateResults
    ELSE {r \in AnomalyResult : r.severity # "NORMAL"}

\* A caller enters dispatch(result): lines 51-54.
SharedCall(c, result) ==
    /\ pc[c] = "idle"
    /\ calls < MaxCalls
    /\ calls' = calls + 1
    /\ frame' = [frame EXCEPT ![c] = [result |-> result, i |-> 1, t |-> 0, dispatched |-> <<>>]]
    /\ pc' = [pc EXCEPT ![c] = IF result.severity = "NORMAL" THEN "return" ELSE "loop"]
    /\ UNCHANGED <<engineVars, now, cooldown_seconds, last_alerted, alerts, rearmed, last_call, emitted>>

\* The head of one iteration, lines 58-69: skip a detail that is not
\* anomalous, read the clock and the table, skip a detail in its cooldown.
SharedCheck(c) ==
    /\ pc[c] = "loop"
    /\ LET f == frame[c]
           anomalies == f.result.anomalies
       IN  IF f.i > Len(anomalies)
           THEN /\ pc' = [pc EXCEPT ![c] = "return"]
                /\ UNCHANGED frame
           ELSE LET detail == anomalies[f.i]
                    last == LastAlerted(last_alerted[Shared], AlertKey(detail))
                IN  IF \/ ~detail.is_anomalous
                       \/ InCooldown(now, last, cooldown_seconds[Shared])
                    THEN /\ frame' = [frame EXCEPT ![c].i = f.i + 1]
                         /\ UNCHANGED pc
                    ELSE /\ frame' = [frame EXCEPT ![c].t = now]
                         /\ pc' = [pc EXCEPT ![c] = "record"]
    /\ UNCHANGED <<engineVars, now, cooldown_seconds, last_alerted, alerts, rearmed, last_call, calls,
                   emitted>>

\* The rest of the iteration, lines 71-132: record the dispatch time, build
\* the record, log, count, append.
SharedRecord(c) ==
    /\ pc[c] = "record"
    /\ LET f == frame[c]
           detail == f.result.anomalies[f.i]
           severity == SeverityForDetail(detail)
       IN  /\ last_alerted' = [last_alerted EXCEPT
                                  ![Shared] = SetLastAlerted(@, AlertKey(detail), f.t)]
           /\ frame' = [frame EXCEPT
                           ![c].dispatched = Append(@, AlertInfo(detail, severity, f.t)),
                           ![c].i = f.i + 1]
           /\ emitted' = emitted \cup
                           {[caller |-> c, key |-> AlertKey(detail), at |-> f.t, call |-> calls]}
    /\ pc' = [pc EXCEPT ![c] = "loop"]
    /\ UNCHANGED <<engineVars, now, cooldown_seconds, alerts, rearmed, last_call, calls>>

\* return dispatched: line 134.
SharedReturn(c) ==
    /\ pc[c] = "return"
    /\ pc' = [pc EXCEPT ![c] = "idle"]
    /\ frame' = [frame EXCEPT ![c] = NoFrame]
    /\ UNCHANGED <<engineVars, now, cooldown_seconds, last_alerted, alerts, rearmed, last_call, calls,
                   emitted>>

\* The monotonic clock advances while the callers run.
SharedAdvance ==
    /\ now + ClockStep <= MaxTime
    /\ now' = now + ClockStep
    /\ UNCHANGED <<engineVars, cooldown_seconds, last_alerted, alerts, rearmed, last_call, calls,
                   pc, frame, emitted>>

NextShared ==
    \/ \E c \in Callers : \E result \in SharedInputs(c) : SharedCall(c, result)
    \/ \E c \in Callers : SharedCheck(c)
    \/ \E c \in Callers : SharedRecord(c)
    \/ \E c \in Callers : SharedReturn(c)
    \/ SharedAdvance

\* One dispatcher shared by the scheduler thread and an ad-hoc caller.
SpecShared == Init /\ [][NextShared]_vars

\* ------------------------------------------------------------ properties
\* A dispatch call has just run.
Called == last_call.op = "dispatch"

\* The cooldown table the call started from and the one it left.
TableBefore == last_call.before[last_call.path]
TableAfter == last_alerted[last_call.path]

\* The details of the dispatched result.
Details == {last_call.result.anomalies[i] : i \in 1..Len(last_call.result.anomalies)}

\* The records the call returned.
Records == {last_call.dispatched[i] : i \in 1..Len(last_call.dispatched)}

RecordKey(r) == <<r.status, r.severity>>

\* The detail is anomalous with |z_score| > 2.5.
Due(d) == d.is_anomalous /\ Abs(d.z_score) > WARNING_Z

\* The number of records returned for a status.
RecordsFor(status) ==
    Cardinality({i \in 1..Len(last_call.dispatched) : last_call.dispatched[i].status = status})

\* The call returned one record for every detail that is anomalous with
\* |z_score| > 2.5.
EveryDueDetailDispatched == \A d \in Details : Due(d) => RecordsFor(d.status) = 1

\* The severity the claims give a detail: CRITICAL above 4.0, WARNING above 2.5.
ClaimedSeverity(z) == IF Abs(z) > CRITICAL_Z THEN "CRITICAL" ELSE "WARNING"

\* C1: within one dispatcher and with no reset_cooldowns() in between, two
\* alert records for the same (status, severity) key are at least
\* cooldown_seconds of monotonic time apart: a record returned for a key that
\* the dispatcher alerted before comes at least cooldown_seconds after that
\* alert (so a dispatch that follows at once returns none for it), and no
\* call returns two records for one key.
C1_CooldownSeparatesAlerts ==
    Called =>
        /\ \A r \in Records :
             (last_call.path \in Instances /\ RecordKey(r) \in DOMAIN last_call.earlier[last_call.path])
                 => r.at - last_call.earlier[last_call.path][RecordKey(r)]
                        >= cooldown_seconds[last_call.path]
        /\ \A i, j \in 1..Len(last_call.dispatched) :
             (i # j /\ RecordKey(last_call.dispatched[i]) = RecordKey(last_call.dispatched[j]))
                 => cooldown_seconds[last_call.path] = 0

\* C1 witness: with a cooldown, a dispatcher returns a record for a key it
\* alerted before.
C1_Witness ==
    /\ Called
    /\ last_call.path \in Instances
    /\ cooldown_seconds[last_call.path] > 0
    /\ \E r \in Records : RecordKey(r) \in DOMAIN last_call.earlier[last_call.path]

\* C2: on a dispatcher whose cooldown table is empty, for every
\* cooldown_seconds > 0 and every value of the clock, dispatch of a result
\* that is not NORMAL returns one record for every detail that is anomalous
\* with |z_score| > 2.5.
C2_FirstDispatchAlerts ==
    (/\ Called
     /\ TableBefore = EmptyTable
     /\ cooldown_seconds[last_call.path] > 0
     /\ last_call.result.severity # "NORMAL")
        => EveryDueDetailDispatched

C4_SharedDispatcherExclusive ==
    \A a, b \in emitted :
        (a # b /\ a.key = b.key) =>
            \/ a.at - b.at >= cooldown_seconds[Shared]
            \/ b.at - a.at >= cooldown_seconds[Shared]

\* C5: every record returned carries severity WARNING or CRITICAL, derived
\* from its detail's z-score, and an anomalous detail whose |z_score| is not
\* above 2.5 leaves no record, no cooldown-table entry and no counter
\* increment.
C5_OnlyWarningOrCritical ==
    Called =>
        /\ \A r \in Records : r.severity = ClaimedSeverity(r.z_score)
        /\ \A d \in Details :
             (d.is_anomalous /\ ~Due(d)) =>
                 /\ RecordsFor(d.status) = 0
                 /\ \A sev \in Severities :
                      <<d.status, sev>> \in DOMAIN TableAfter
                          => (/\ <<d.status, sev>> \in DOMAIN TableBefore
                              /\ TableAfter[<<d.status, sev>>] = TableBefore[<<d.status, sev>>])
                 /\ \A i \in 1..Len(last_call.incs) : last_call.incs[i][1] # d.status

\* The number of logs and of counter increments of the call for a key.
LogsFor(key, level) ==
    Cardinality({i \in 1..Len(last_call.logs) :
        /\ last_call.logs[i].alert
        /\ last_call.logs[i].level = level
        /\ <<last_call.logs[i].status, last_call.logs[i].severity>> = key})
LogsAbout(status) ==
    Cardinality({i \in 1..Len(last_call.logs) : last_call.logs[i].status = status})
IncsFor(key) ==
    Cardinality({i \in 1..Len(last_call.incs) : last_call.incs[i] = key})
IncsAbout(status) ==
    Cardinality({i \in 1..Len(last_call.incs) : last_call.incs[i][1] = status})

\* C6: each record returned comes with exactly one alert-tagged log at the
\* level of its severity and exactly one increment of its (status, severity)
\* counter; a detail that is not returned causes no log and no increment.
C6_OneLogAndOneCountPerRecord ==
    Called =>
        /\ \A r \in Records :
             /\ LogsFor(RecordKey(r), r.severity) = 1
             /\ LogsAbout(r.status) = 1
             /\ IncsFor(RecordKey(r)) = 1
        /\ \A d \in Details :
             RecordsFor(d.status) = 0 => (LogsAbout(d.status) = 0 /\ IncsAbout(d.status) = 0)

\* C7: dispatch of a result whose severity is NORMAL returns no record and
\* has no effect: the cooldown table is unchanged, nothing is logged and no
\* counter is incremented, whatever the details.
C7_NormalResultNoEffect ==
    (Called /\ last_call.result.severity = "NORMAL") =>
        /\ last_call.dispatched = <<>>
        /\ last_call.logs = <<>>
        /\ last_call.incs = <<>>
        /\ last_alerted = last_call.before

\* C7 witness: a NORMAL result is dispatched that holds an anomalous detail
\* with |z_score| > 2.5 whose key is not in its cooldown.
C7_Witness ==
    /\ Called
    /\ last_call.result.severity = "NORMAL"
    /\ \E d \in Details :
         /\ Due(d)
         /\ ~InCooldown(now, LastAlerted(TableBefore, AlertKey(d)),
                        cooldown_seconds[last_call.path])

\* C8: reset_cooldowns() empties the cooldown table, and a dispatch issued
\* right after it returns a record for every anomalous detail with
\* |z_score| > 2.5.
C8_ResetRearms ==
    /\ last_call.op = "reset" => TableAfter = EmptyTable
    /\ (Called /\ last_call.rearmed /\ last_call.result.severity # "NORMAL")
          => EveryDueDetailDispatched

\* C9: with cooldown_seconds = 0 every dispatch of a result that is not
\* NORMAL returns a record for every anomalous detail with |z_score| > 2.5.
C9_ZeroCooldownNeverSuppresses ==
    (/\ Called
     /\ cooldown_seconds[last_call.path] = 0
     /\ last_call.result.severity # "NORMAL")
        => EveryDueDetailDispatched

\* C9 witness: with cooldown_seconds = 0, a record is returned for a key the
\* dispatcher alerted at the same clock value.
C9_Witness ==
    /\ Called
    /\ cooldown_seconds[last_call.path] = 0
    /\ \E r \in Records :
         /\ RecordKey(r) \in DOMAIN TableBefore
         /\ TableBefore[RecordKey(r)] = r.at

\* C10: the keys of every cooldown table are (monitored status, severity)
\* pairs, so no table holds more than |statuses| x |severities| entries.
C10_TableBounded ==
    \A p \in Paths :
        /\ DOMAIN last_alerted[p] \subseteq Statuses \X Severities
        /\ Cardinality(DOMAIN last_alerted[p]) <= Cardinality(Statuses) * Cardinality(Severities)

\* C10 witness: a table that holds a status under two severities.
C10_Witness ==
    \E p \in Paths : \E s \in Statuses : \E s1, s2 \in Severities :
        /\ s1 # s2
        /\ <<s, s1>> \in DOMAIN last_alerted[p]
        /\ <<s, s2>> \in DOMAIN last_alerted[p]

\* ------------------------------------------------ PolicyAnomalyDetector
\* Counts are integers.  A mean, a standard deviation and a full-precision
\* z-score are exact fractions [num, den] with den > 0; the histories of the
\* model are chosen so that every variance has an exact root.

PROBLEM_STATUSES == {"denied", "failed", "reversed", "backend_reversed"}

\* d.get(k, 0)
Get(d, k) == IF k \in DOMAIN d THEN d[k] ELSE 0

\* A per-minute dict with the same count for every monitored status.
Minute(c) == [s \in Statuses |-> c]

\* History windows, oldest first: none, one shorter than min_history, a
\* steady baseline (mean 1000, std 0), a baseline with one busy minute (mean
\* 100.5, std 201).
Histories ==
    {<<>>,
     <<Minute(0), Minute(0), Minute(0)>>,
     <<Minute(1000), Minute(1000), Minute(1000), Minute(1000)>>,
     <<Minute(0), Minute(0), Minute(0), Minute(402)>>}

\* Current counts of one status.  Against the busy baseline: 0 is a drop,
\* 602 gives z = 2.49502 (rounds to 2.5), 604 gives z = 2.50498 (rounds to
\* 2.5), 700 gives z = 2.98, 905 gives z = 4.00249 (rounds to 4.0), 1000 gives
\* z = 4.48.  Against the steady baseline all but 1000 are drops.  No z-score
\* of these lies halfway between two hundredths.
Counts == {0, 602, 604, 700, 905, 1000}

\* What get_status_counts_at(minutes=1) returns: nothing, or a count for
\* every monitored status; the statuses after the first are quiet or far
\* above the baseline.
CurrentCounts ==
    {EmptyDict} \cup
    {c \in [Statuses -> Counts] :
        \A i \in 2..MaxStatuses : c[ALERT_STATUSES[i]] \in {0, 1000}}

RECURSIVE SumTo(_, _)
\* sum(values) over the first n values
SumTo(values, n) == IF n = 0 THEN 0 ELSE values[n] + SumTo(values, n - 1)

RECURSIVE SqrtSearch(_, _, _)
\* The largest r in lo..hi with r * r <= x.
SqrtSearch(x, lo, hi) ==
    IF lo >= hi THEN lo
    ELSE LET mid == (lo + hi + 1) \div 2
         IN  IF mid * mid <= x THEN SqrtSearch(x, mid, hi)
             ELSE SqrtSearch(x, lo, mid - 1)

\* sqrt(x) for x a perfect square.
Sqrt(x) == SqrtSearch(x, 0, IF x < 46340 THEN x ELSE 46340)

\* _rolling_stats: mean and sample standard deviation of a status over the
\* history window.  variance = sum((v - mean)^2) / (n - 1)
\*                          = (n * sum(v^2) - sum(v)^2) / (n * (n - 1)).
RollingStats(history, status) ==
    LET n == Len(history)
        values == [i \in 1..n |-> Get(history[i], status)]
        squares == [i \in 1..n |-> values[i] * values[i]]
        total == SumTo(values, n)
    IN  IF n = 0 THEN [mean |-> [num |-> 0, den |-> 1], std |-> [num |-> 0, den |-> 1]]
        ELSE IF n < 2 THEN [mean |-> [num |-> total, den |-> n], std |-> [num |-> 0, den |-> 1]]
        ELSE LET vnum == n * SumTo(squares, n) - total * total
                 vden == n * (n - 1)
             IN  [mean |-> [num |-> total, den |-> n],
                  std |-> [num |-> Sqrt(vnum * vden), den |-> vden]]

\* z = (current - mean) / max(std, 1.0)
ZScoreOf(current, stats) ==
    LET floor == IF stats.std.num > stats.std.den THEN stats.std
                 ELSE [num |-> 1, den |-> 1]
    IN  [num |-> (current * stats.mean.den - stats.mean.num) * floor.den,
         den |-> stats.mean.den * floor.num]

Exceeds_TwoSided(z, threshold) == Abs(z.num) * 1000 > threshold * z.den

\* z > threshold, on the full-precision z; the threshold is in thousandths.
Exceeds(z, threshold) == z.num * 1000 > threshold * z.den

\* round(z, 2), in hundredths: to the nearest, a tie to the even neighbour.
Round2(z) ==
    LET scaled == z.num * 100
        k == scaled \div z.den
        twice == 2 * (scaled - k * z.den)
    IN  IF twice > z.den THEN k + 1
        ELSE IF twice < z.den THEN k
        ELSE IF k % 2 = 0 THEN k ELSE k + 1

\* d.z_score > threshold, on the rounded z_score of a detail (in hundredths).
RoundedExceeds(z_score, threshold) == z_score * 10 > threshold

DetectDetail_AbsScore(cfg, status, status_counts, history) ==
    LET current == Get(status_counts, status)
        z == ZScoreOf(current, RollingStats(history, status))
    IN  [status |-> status, z_score |-> Round2(z),
         is_anomalous |-> Exceeds([num |-> Abs(z.num), den |-> z.den],
                                  cfg.z_score_threshold)]

\* One iteration of the loop of detect, lines 126-146.
DetectDetail(cfg, status, status_counts, history) ==
    LET current == Get(status_counts, status)
        z == ZScoreOf(current, RollingStats(history, status))
    IN  [status |-> status, z_score |-> Round2(z),
         is_anomalous |-> Exceeds(z, cfg.z_score_threshold)]

\* _compute_severity: overall severity from the details (their rounded z_score).
ComputeSeverity(cfg, details) ==
    LET has_critical == \E i \in DOMAIN details :
                            RoundedExceeds(details[i].z_score, cfg.critical_threshold)
        has_warning == \E i \in DOMAIN details :
                            RoundedExceeds(details[i].z_score, cfg.z_score_threshold)
    IN  IF has_critical THEN "CRITICAL"
        ELSE IF has_warning THEN "WARNING"
        ELSE "NORMAL"

RECURSIVE MaxTo(_, _)
\* max(d.z_score for d in details) over the first n details
MaxTo(details, n) ==
    IF n = 1 THEN details[1].z_score
    ELSE LET rest == MaxTo(details, n - 1)
         IN  IF details[n].z_score > rest THEN details[n].z_score ELSE rest

Detect_NoWarmUp(cfg, status_counts, history) ==
    LET details == [i \in 1..MaxStatuses |->
                       DetectDetail(cfg, ALERT_STATUSES[i], status_counts, history)]
    IN  [max_z_score |-> MaxTo(details, MaxStatuses),
         severity |-> ComputeSeverity(cfg, details),
         anomalies |-> details]

\* PolicyAnomalyDetector.detect(status_counts, history)
Detect(cfg, status_counts, history) ==
    IF Len(history) < cfg.min_history
    THEN [max_z_score |-> 0, severity |-> "NORMAL", anomalies |-> <<>>]
    ELSE LET details == [i \in 1..MaxStatuses |->
                            DetectDetail(cfg, ALERT_STATUSES[i], status_counts, history)]
         IN  [max_z_score |-> MaxTo(details, MaxStatuses),
              severity |-> ComputeSeverity(cfg, details),
              anomalies |-> details]

EvaluateSingle_AnyStatus(cfg, status, count, history) ==
    IF Len(history) < cfg.min_history
    THEN IF count > 0
         THEN [severity |-> "CRITICAL", z_score |-> NO_BASELINE_Z, is_anomalous |-> TRUE,
               message |-> "no_baseline"]
         ELSE [severity |-> "NORMAL", z_score |-> 0, is_anomalous |-> FALSE,
               message |-> "insufficient_history"]
    ELSE LET z == ZScoreOf(count, RollingStats(history, status))
             is_anomalous == Exceeds(z, cfg.z_score_threshold)
         IN  [severity |-> IF Exceeds(z, cfg.critical_threshold) THEN "CRITICAL"
                           ELSE IF Exceeds(z, cfg.z_score_threshold) THEN "WARNING"
                           ELSE "NORMAL",
              z_score |-> Round2(z),
              is_anomalous |-> is_anomalous,
              message |-> IF is_anomalous THEN "above_baseline" ELSE ""]

\* PolicyAnomalyDetector.evaluate_single(status, count, history); the message
\* is one of: no historical baseline, insufficient history, above baseline,
\* empty.
EvaluateSingle(cfg, status, count, history) ==
    IF Len(history) < cfg.min_history
    THEN IF status \in PROBLEM_STATUSES /\ count > 0
         THEN [severity |-> "CRITICAL", z_score |-> NO_BASELINE_Z, is_anomalous |-> TRUE,
               message |-> "no_baseline"]
         ELSE [severity |-> "NORMAL", z_score |-> 0, is_anomalous |-> FALSE,
               message |-> "insufficient_history"]
    ELSE LET z == ZScoreOf(count, RollingStats(history, status))
             is_anomalous == Exceeds(z, cfg.z_score_threshold)
         IN  [severity |-> IF Exceeds(z, cfg.critical_threshold) THEN "CRITICAL"
                           ELSE IF Exceeds(z, cfg.z_score_threshold) THEN "WARNING"
                           ELSE "NORMAL",
              z_score |-> Round2(z),
              is_anomalous |-> is_anomalous,
              message |-> IF is_anomalous THEN "above_baseline" ELSE ""]

\* ------------------------------------------------------- the log handlers
\* logging's numeric levels.
LevelNo(level) ==
    CASE level = "DEBUG" -> 10
      [] level = "INFO" -> 20
      [] level = "WARNING" -> 30
      [] level = "ERROR" -> 40
      [] level = "CRITICAL" -> 50

\* The health of the sinks while a call runs: the stream the JSON log lines
\* are written to, the webhook ("off" when ALERT_WEBHOOK_URL is not set,
\* "fail" when the POST thread cannot be started), the alert counter and the
\* gauges ("fail" when the metrics subsystem is unavailable).  At most one
\* sink is out of order, or all of them fail.
SinkStates ==
    {s \in [stream : {"ok", "fail"}, webhook : {"off", "ok", "fail"},
            counter : {"ok", "fail"}, gauges : {"ok", "fail"}] :
        \/ Cardinality({f \in DOMAIN s : s[f] # "ok"}) <= 1
        \/ \A f \in DOMAIN s : s[f] = "fail"}

\* What the handlers did with the records of a call: the lines written, the
\* POST threads started, and whether an exception reached the logging call.
NoOutput == [written |-> <<>>, started |-> <<>>, raised |-> FALSE]

StreamEmit_Unguarded(record, stream) ==
    IF stream = "ok" THEN [NoOutput EXCEPT !.written = <<record>>]
    ELSE [NoOutput EXCEPT !.raised = TRUE]

\* The StreamHandler setup_logging attaches to the root logger: a record is
\* written, or the failure is given to handleError and goes no further.
StreamEmit(record, stream) ==
    IF stream = "ok" THEN [NoOutput EXCEPT !.written = <<record>>]
    ELSE NoOutput

StartPost_Inline(record) == [status |-> record.status, state |-> "delivered"]

\* threading.Thread(target=self._send, args=(payload,), daemon=True).start():
\* the POST runs in a thread of its own.
StartPost(record) == [status |-> record.status, state |-> "running"]

WebhookEmit_AnyAlert(record, webhook) ==
    IF ~record.alert THEN NoOutput
    ELSE IF webhook = "fail" THEN NoOutput
    ELSE [NoOutput EXCEPT !.started = <<StartPost(record)>>]

\* WebhookAlertHandler.emit
WebhookEmit(record, webhook) ==
    IF LevelNo(record.level) < LevelNo("CRITICAL") THEN NoOutput
    ELSE IF ~record.alert THEN NoOutput
    ELSE IF webhook = "fail" THEN NoOutput
    ELSE [NoOutput EXCEPT !.started = <<StartPost(record)>>]

\* A record logged at or above the root level (INFO) goes to the stream
\* handler and, when a webhook is configured and the record is at or above
\* the handler's level (WARNING), to the webhook handler.
HandleRecord(record, sinks) ==
    IF LevelNo(record.level) < LevelNo("INFO") THEN NoOutput
    ELSE LET s == StreamEmit(record, sinks.stream)
             w == IF sinks.webhook = "off" \/ LevelNo(record.level) < LevelNo("WARNING")
                     \/ s.raised
                  THEN NoOutput
                  ELSE WebhookEmit(record, sinks.webhook)
         IN  [written |-> s.written, started |-> w.started, raised |-> s.raised \/ w.raised]

UpdateAlertCounter_Unguarded(status, severity, counter) ==
    IF counter = "ok" THEN [incs |-> <<<<status, severity>>>>, raised |-> FALSE]
    ELSE [incs |-> <<>>, raised |-> TRUE]

\* _update_alert_counter: the increment, or nothing when it fails.
UpdateAlertCounter(status, severity, counter) ==
    IF counter = "ok" THEN [incs |-> <<<<status, severity>>>>, raised |-> FALSE]
    ELSE [incs |-> <<>>, raised |-> FALSE]

\* ---------------------------------------------- dispatch and its sinks
\* The state of a dispatch call whose sinks can fail: as DispatchStart, with
\* the lines written, the POST threads started and whether an exception left
\* the call.
SinkStart(table) ==
    [table |-> table, dispatched |-> <<>>, logs |-> <<>>, incs |-> <<>>,
     written |-> <<>>, started |-> <<>>, raised |-> FALSE]

\* One iteration of the loop of dispatch, lines 58-132, the handlers and the
\* counter included.  An exception ends the call where it is raised.
SinkDetail(st, detail, t, cooldown, sinks) ==
    IF st.raised \/ ~detail.is_anomalous THEN st
    ELSE
    LET severity == SeverityForDetail(detail)
        key == AlertKey(detail)
    IN  IF InCooldown(t, LastAlerted(st.table, key), cooldown) THEN st
        ELSE
        LET logs == AlertLogs(detail, severity)
            out == IF logs = <<>> THEN NoOutput ELSE HandleRecord(logs[1], sinks)
            afterLog == [st EXCEPT !.table = SetLastAlerted(st.table, key, t),
                                   !.logs = st.logs \o logs,
                                   !.written = st.written \o out.written,
                                   !.started = st.started \o out.started,
                                   !.raised = out.raised]
            count == UpdateAlertCounter(detail.status, severity, sinks.counter)
        IN  IF out.raised THEN afterLog
            ELSE IF count.raised THEN [afterLog EXCEPT !.raised = TRUE]
            ELSE [afterLog EXCEPT !.incs = st.incs \o count.incs,
                                  !.dispatched = Append(st.dispatched,
                                                        AlertInfo(detail, severity, t))]

RECURSIVE SinkLoop(_, _, _, _, _, _)
\* for detail in result.anomalies: ...
SinkLoop(st, anomalies, t, cooldown, sinks, i) ==
    IF i > Len(anomalies) THEN st
    ELSE SinkLoop(SinkDetail(st, anomalies[i], t, cooldown, sinks),
                  anomalies, t, cooldown, sinks, i + 1)

\* AlertDispatcher.dispatch(result) with the given sinks.
SinkDispatch(table, result, t, cooldown, sinks) ==
    IF result.severity = "NORMAL" THEN SinkStart(table)
    ELSE SinkLoop(SinkStart(table), result.anomalies, t, cooldown, sinks, 1)

\* ------------------------------------------------------ the scheduler tick
UpdateAnomalyMetrics_OnlyAlerts(result, gauges) ==
    IF gauges = "ok"
    THEN [pushed |-> IF result.severity = "NORMAL" THEN 0 ELSE 1, logs |-> <<>>,
          raised |-> FALSE]
    ELSE [pushed |-> 0,
          logs |-> <<[level |-> "WARNING", alert |-> FALSE, status |-> "", severity |-> ""]>>,
          raised |-> FALSE]

\* _update_anomaly_metrics: the gauges are set, or the failure is logged as
\* a warning.
UpdateAnomalyMetrics(result, gauges) ==
    IF gauges = "ok" THEN [pushed |-> 1, logs |-> <<>>, raised |-> FALSE]
    ELSE [pushed |-> 0,
          logs |-> <<[level |-> "WARNING", alert |-> FALSE, status |-> "", severity |-> ""]>>,
          raised |-> FALSE]

\* The line run_alert_check logs after the check: info after a dispatch,
\* debug for NORMAL.
CheckLog(result) ==
    [level |-> IF result.severity # "NORMAL" THEN "INFO" ELSE "DEBUG",
     alert |-> FALSE, status |-> "", severity |-> ""]

TickCounts_NoFallback(st) == st.current_counts

\* The current counts detect is given: those of the last minute, or the most
\* recent history entry when there are none.
TickCounts(st) ==
    IF st.current_counts = EmptyDict /\ st.history # <<>>
    THEN st.history[Len(st.history)]
    ELSE st.current_counts

NothingToCheck_Never(st) == FALSE

\* if not current_counts and not history: skip the check
NothingToCheck(st) == st.current_counts = EmptyDict /\ st.history = <<>>

\* run_alert_check(detector, dispatcher) on what the store returns, with the
\* clock at t: what the tick did.
AlertCheck(cfg, st, table, t, cooldown, sinks) ==
    IF NothingToCheck(st)
    THEN [NoTick EXCEPT !.op = "tick", !.skipped = TRUE, !.before = table,
                        !.sinks = sinks, !.clock = <<t>>]
    ELSE
    LET result == Detect(cfg, TickCounts(st), st.history)
        metrics == UpdateAnomalyMetrics(result, sinks.gauges)
        mlog == IF metrics.logs = <<>> THEN NoOutput ELSE HandleRecord(metrics.logs[1], sinks)
        called == ~metrics.raised /\ result.severity # "NORMAL"
        out == IF called THEN SinkDispatch(table, result, t, cooldown, sinks)
               ELSE SinkStart(table)
        clog == IF metrics.raised \/ out.raised THEN NoOutput
                ELSE HandleRecord(CheckLog(result), sinks)
    IN  [NoTick EXCEPT !.op = "tick", !.result = result, !.gauges = metrics.pushed,
                       !.gauge_calls = 1,
                       !.dispatch_calls = IF called THEN 1 ELSE 0,
                       !.raised = metrics.raised \/ out.raised,
                       !.dispatched = out.dispatched, !.logs = out.logs, !.incs = out.incs,
                       !.started = mlog.started \o out.started \o clog.started,
                       !.before = table, !.sinks = sinks, !.clock = <<t>>]

\* The cooldown table a tick leaves.
AlertCheckTable(cfg, st, table, t, cooldown, sinks) ==
    IF NothingToCheck(st) THEN table
    ELSE LET result == Detect(cfg, TickCounts(st), st.history)
         IN  IF UpdateAnomalyMetrics(result, sinks.gauges).raised
                \/ result.severity = "NORMAL"
             THEN table
             ELSE SinkDispatch(table, result, t, cooldown, sinks).table

\* What the store can return to a tick.
Stores == [current_counts : CurrentCounts, history : Histories]

\* The statuses /alerts/evaluate can be asked about.
EvaluateStatuses == Statuses \cup {"approved"}

\* The engine at start: a detector, a store, the scheduler's dispatcher with
\* the default cooldown, no POST in flight.
InitEngine ==
    /\ now \in Times
    /\ cooldown_seconds = [p \in Paths |-> DEFAULT_COOLDOWN_SECONDS]
    /\ last_alerted = [p \in Paths |-> EmptyTable]
    /\ alerts = [p \in Paths |-> EmptyTable]
    /\ rearmed = {}
    /\ last_call = NoCall
    /\ calls = 0
    /\ pc = [c \in Callers |-> "idle"]
    /\ frame = [c \in Callers |-> NoFrame]
    /\ emitted = {}
    /\ detector \in DetectorConfigs
    /\ store \in Stores
    /\ tick = NoTick
    /\ posts = <<>>
    /\ loop = NoLoop

\* No detector call or tick is running.
TickIdle == tick.op = "none"

\* One iteration of alert_loop: run_alert_check in a worker thread.
RunAlertCheck(sinks) ==
    LET table == last_alerted["scheduler"]
        cooldown == cooldown_seconds["scheduler"]
        done == AlertCheck(detector, store, table, now, cooldown, sinks)
    IN  /\ TickIdle
        /\ calls < MaxCalls
        /\ calls' = calls + 1
        /\ tick' = done
        /\ last_alerted' = [last_alerted EXCEPT
                              !["scheduler"] = AlertCheckTable(detector, store, table, now,
                                                               cooldown, sinks)]
        /\ posts' = posts \o done.started
        /\ UNCHANGED <<loop, now, cooldown_seconds, alerts, rearmed, last_call, pc, frame, emitted,
                       detector, store>>

\* detector.detect(status_counts, history) called on its own.
DetectCall ==
    /\ TickIdle
    /\ tick' = [NoTick EXCEPT !.op = "detect",
                              !.result = Detect(detector, store.current_counts, store.history)]
    /\ UNCHANGED <<loop, now, cooldown_seconds, last_alerted, alerts, rearmed, last_call, calls,
                   pc, frame, emitted, detector, store, posts>>

\* detector.evaluate_single(status, count, history) called on its own.
EvaluateSingleCall(status, count) ==
    /\ TickIdle
    /\ tick' = [NoTick EXCEPT !.op = "evaluate_single", !.status = status, !.count = count,
                              !.result = EvaluateSingle(detector, status, count, store.history)]
    /\ UNCHANGED <<loop, now, cooldown_seconds, last_alerted, alerts, rearmed, last_call, calls,
                   pc, frame, emitted, detector, store, posts>>

\* The call returns.
TickReturn ==
    /\ ~TickIdle
    /\ tick' = NoTick
    /\ UNCHANGED <<loop, now, cooldown_seconds, last_alerted, alerts, rearmed, last_call, calls,
                   pc, frame, emitted, detector, store, posts>>

\* _send: urlopen answers.
PostDelivered(i) ==
    /\ posts[i].state = "running"
    /\ posts' = [posts EXCEPT ![i].state = "delivered"]
    /\ UNCHANGED <<loop, now, cooldown_seconds, last_alerted, alerts, rearmed, last_call, calls,
                   pc, frame, emitted, detector, store, tick>>

\* _send: urlopen raises (URLError or another exception); the thread logs it
\* at debug level and ends.
PostFails(i) ==
    /\ posts[i].state = "running"
    /\ posts' = [posts EXCEPT ![i].state = "failed"]
    /\ UNCHANGED <<loop, now, cooldown_seconds, last_alerted, alerts, rearmed, last_call, calls,
                   pc, frame, emitted, detector, store, tick>>

\* The monotonic clock advances between two calls.
EngineAdvance ==
    /\ TickIdle
    /\ now + ClockStep <= MaxTime
    /\ now' = now + ClockStep
    /\ UNCHANGED <<loop, cooldown_seconds, last_alerted, alerts, rearmed, last_call, calls,
                   pc, frame, emitted, engineVars>>

NextEngine ==
    \/ \E sinks \in SinkStates : RunAlertCheck(sinks)
    \/ DetectCall
    \/ \E status \in EvaluateStatuses, count \in Counts : EvaluateSingleCall(status, count)
    \/ TickReturn
    \/ \E i \in DOMAIN posts : PostDelivered(i)
    \/ \E i \in DOMAIN posts : PostFails(i)
    \/ EngineAdvance

\* The detector, the scheduler's ticks and the webhook threads.
SpecEngine == InitEngine /\ [][NextEngine]_vars

\* ------------------------------------------- properties of the engine
\* A scheduler tick has just run, and it called dispatch.
Ticked == tick.op = "tick"
TickDispatched == Ticked /\ tick.dispatch_calls = 1

\* What dispatch does for the tick's result when every sink works: the
\* records it returns, the counter increments, the cooldown table it leaves.
HealthyDispatch ==
    DispatchResult(tick.before, tick.result,
                   [i \in 1..Len(tick.result.anomalies) |-> tick.clock[1]],
                   cooldown_seconds["scheduler"])

\* C11: when the emission of an alert log fails (the stream cannot be
\* written, the webhook handler cannot start its thread), dispatch raises
\* nothing, returns the records it returns with working sinks, and increments
\* the counter of each of them.
C11_LogFailureTolerated ==
    (TickDispatched /\ (tick.sinks.stream = "fail" \/ tick.sinks.webhook = "fail"))
        => /\ ~tick.raised
           /\ tick.dispatched = HealthyDispatch.dispatched
           /\ tick.sinks.counter = "ok" => tick.incs = HealthyDispatch.incs

\* C11 witness: the stream fails and dispatch still returns two records and
\* counts both.
C11_Witness ==
    /\ TickDispatched
    /\ tick.sinks.stream = "fail"
    /\ tick.sinks.counter = "ok"
    /\ Len(tick.dispatched) = 2
    /\ Len(tick.incs) = 2

\* C12: a failure of the alert counter is swallowed, the record is returned,
\* its cooldown is recorded and the later details are processed; a failure of
\* the gauge push is swallowed and the tick still dispatches.
C12_MetricFailureSwallowed ==
    /\ (TickDispatched /\ tick.sinks.counter = "fail")
           => /\ ~tick.raised
              /\ tick.incs = <<>>
              /\ tick.dispatched = HealthyDispatch.dispatched
              /\ last_alerted["scheduler"] = HealthyDispatch.table
    /\ (Ticked /\ ~tick.skipped /\ tick.sinks.gauges = "fail")
           => /\ ~tick.raised
              /\ tick.gauges = 0
              /\ tick.dispatch_calls = (IF tick.result.severity # "NORMAL" THEN 1 ELSE 0)

\* C12 witness: neither the counter nor the gauges work, and the tick
\* dispatches two records and records their cooldowns.
C12_Witness ==
    /\ TickDispatched
    /\ tick.sinks.counter = "fail"
    /\ tick.sinks.gauges = "fail"
    /\ Len(tick.dispatched) = 2
    /\ Cardinality(DOMAIN last_alerted["scheduler"]) = 2

\* The POST threads a tick started for a status.
StartedFor(status) == {i \in DOMAIN tick.started : tick.started[i].status = status}

\* The records of a severity a tick dispatched for a status.
DispatchedAt(status, severity) ==
    {i \in DOMAIN tick.dispatched :
        tick.dispatched[i].status = status /\ tick.dispatched[i].severity = severity}

EarlierPosts == 1..(Len(posts) - Len(tick.started))

\* C14: a POST is still running in its own thread when dispatch returns, and
\* a POST that has not answered or has failed changes nothing for a tick: the
\* tick raises nothing and dispatches what it dispatches with working sinks.
C14_WebhookDetached ==
    Ticked =>
        /\ \A i \in DOMAIN tick.started : tick.started[i].state = "running"
        /\ (\E i \in EarlierPosts : posts[i].state \in {"running", "failed"})
               => /\ ~tick.raised
                  /\ tick.dispatched = HealthyDispatch.dispatched

\* C14 witness: a tick dispatches a record and starts a POST while a POST
\* of an earlier tick has still not answered.
C14_Witness ==
    /\ TickDispatched
    /\ tick.dispatched # <<>>
    /\ tick.started # <<>>
    /\ \E i \in EarlierPosts : posts[i].state = "running"

\* detect has just run, on its own or in a tick.
Detected == tick.op = "detect" \/ (Ticked /\ ~tick.skipped)

\* The counts it was given and whether the history is a full baseline.
DetectCounts == IF Ticked THEN TickCounts(store) ELSE store.current_counts
ShortHistory == Len(store.history) < detector.min_history

\* C15: on a history shorter than min_history detect returns NORMAL with
\* max_z_score 0.0 and no details, whatever the counts, and a tick that gets
\* this result calls no dispatch, returns no record and starts no POST.
C15_WarmUpIsNormal ==
    (Detected /\ ShortHistory)
        => /\ tick.result.severity = "NORMAL"
           /\ tick.result.max_z_score = 0
           /\ tick.result.anomalies = <<>>
           /\ tick.dispatch_calls = 0
           /\ tick.dispatched = <<>>
           /\ tick.started = <<>>
           /\ last_alerted["scheduler"] = tick.before

\* C15 witness: a tick on a short history whose counts are far above it.
C15_Witness ==
    /\ Ticked
    /\ ~tick.skipped
    /\ ShortHistory
    /\ store.history # <<>>
    /\ \A s \in Statuses : Get(DetectCounts, s) = 1000

\* The full-precision z-score of a status in the detect call that has run.
FullZ(status) == ZScoreOf(Get(DetectCounts, status), RollingStats(store.history, status))

\* The aggregate severity by the full-precision z-scores.
FullPrecisionSeverity ==
    IF \E s \in Statuses : Exceeds(FullZ(s), detector.critical_threshold) THEN "CRITICAL"
    ELSE IF \E s \in Statuses : Exceeds(FullZ(s), detector.z_score_threshold) THEN "WARNING"
    ELSE "NORMAL"

\* C16: on a full history the aggregate severity of detect is the one the
\* full-precision z-scores give: CRITICAL iff one exceeds critical_threshold,
\* else WARNING iff one exceeds z_score_threshold, else NORMAL.
C16_SeverityByFullPrecision ==
    (Detected /\ ~ShortHistory) => tick.result.severity = FullPrecisionSeverity

\* C17: a result of detect in which no detail is anomalous is NORMAL.
C17_NoAnomalyIsNormal ==
    (Detected /\ \A i \in DOMAIN tick.result.anomalies : ~tick.result.anomalies[i].is_anomalous)
        => tick.result.severity = "NORMAL"

\* The current count of the status is at or below its baseline mean.
AtOrBelowMean(status) ==
    LET mean == RollingStats(store.history, status).mean
    IN  Get(DetectCounts, status) * mean.den <= mean.num

\* The details of the result without those of a status.
DetailsWithout(status) ==
    SelectSeq(tick.result.anomalies, LAMBDA d : d.status # status)

SeverityRank(severity) ==
    CASE severity = "NORMAL" -> 0
      [] severity = "WARNING" -> 1
      [] severity = "CRITICAL" -> 2

\* The counts with the count of one status raised.
Raised(counts, status, c) == [s \in Statuses |-> IF s = status THEN c ELSE Get(counts, s)]

\* C19: with the history and the other counts fixed, a higher current count
\* of a status gives a z_score of that status that is not lower, leaves it
\* anomalous if it was, and gives an aggregate severity that is not lower.
C19_SeverityMonotone ==
    (tick.op = "detect" /\ ~ShortHistory)
        => \A i \in 1..MaxStatuses : \A c \in Counts :
               LET status == ALERT_STATUSES[i]
                   higher == Detect(detector, Raised(store.current_counts, status, c),
                                    store.history)
               IN  c >= Get(store.current_counts, status)
                       => /\ higher.anomalies[i].z_score >= tick.result.anomalies[i].z_score
                          /\ tick.result.anomalies[i].is_anomalous
                                 => higher.anomalies[i].is_anomalous
                          /\ SeverityRank(higher.severity) >= SeverityRank(tick.result.severity)

\* C19 witness: detect has flagged a status whose count can still be raised.
C19_Witness ==
    /\ tick.op = "detect"
    /\ ~ShortHistory
    /\ \E i \in 1..MaxStatuses :
         /\ tick.result.anomalies[i].is_anomalous
         /\ Get(store.current_counts, ALERT_STATUSES[i]) = 700
         /\ tick.result.severity = "WARNING"

C21_InsufficientHistoryIsNormal ==
    (tick.op = "evaluate_single" /\ ShortHistory)
        => /\ tick.result.severity = "NORMAL"
           /\ tick.result.message = "insufficient_history"

\* What detect assigns to the status evaluate_single was asked about, when
\* that status alone is considered with the same count and history.
DetectAlone ==
    LET detail == DetectDetail(detector, tick.status,
                               [s \in {tick.status} |-> tick.count], store.history)
    IN  [z_score |-> detail.z_score, is_anomalous |-> detail.is_anomalous,
         severity |-> ComputeSeverity(detector, <<detail>>)]

\* C22: on a full history the z_score, is_anomalous and severity of
\* evaluate_single are those detect assigns when only that status is
\* considered with the same count and history.
C22_EvaluateSingleAsDetect ==
    (tick.op = "evaluate_single" /\ ~ShortHistory)
        => /\ tick.result.z_score = DetectAlone.z_score
           /\ tick.result.is_anomalous = DetectAlone.is_anomalous
           /\ tick.result.severity = DetectAlone.severity

\* C23: a tick whose current counts and history are both empty is skipped:
\* no detect result, no gauge call, no dispatch call, no record, log or POST,
\* the cooldown table as before, and no exception.
C23_EmptyTickSkipped ==
    (Ticked /\ store.current_counts = EmptyDict /\ store.history = <<>>)
        => /\ tick.skipped
           /\ tick.result = <<>>
           /\ tick.gauge_calls = 0
           /\ tick.gauges = 0
           /\ tick.dispatch_calls = 0
           /\ tick.dispatched = <<>>
           /\ tick.started = <<>>
           /\ last_alerted["scheduler"] = tick.before
           /\ ~tick.raised

\* C23 witness: a tick on an empty store, skipped with failing sinks.
C23_Witness ==
    /\ Ticked
    /\ store.current_counts = EmptyDict
    /\ store.history = <<>>
    /\ tick.skipped
    /\ tick.sinks.gauges = "fail"

\* C24: a tick whose current counts are empty and whose history is not runs
\* detect on the last history entry as current counts with the whole history
\* as baseline, and is not skipped.
C24_FallbackToLastEntry ==
    (Ticked /\ store.current_counts = EmptyDict /\ store.history # <<>>)
        => /\ ~tick.skipped
           /\ tick.gauge_calls = 1
           /\ tick.result = Detect(detector, store.history[Len(store.history)],
                                   store.history)

\* C24 witness: such a tick on a full baseline, with a detail for the last
\* entry's count.
C24_Witness ==
    /\ Ticked
    /\ store.current_counts = EmptyDict
    /\ ~ShortHistory
    /\ ~tick.skipped
    /\ Len(tick.result.anomalies) > 0
    /\ tick.result.anomalies[1].z_score = 0

TickFaults == {"fetch", "detect", "dispatch"}

\* The sinks of the scheduler process: no webhook configured.
LoopSinks == {s \in SinkStates : s.webhook = "off"}

\* The lifespan has created the task; the dispatcher and the detector are the
\* defaults.
InitLoop ==
    /\ now \in Times
    /\ cooldown_seconds = [p \in Paths |-> DEFAULT_COOLDOWN_SECONDS]
    /\ last_alerted = [p \in Paths |-> EmptyTable]
    /\ alerts = [p \in Paths |-> EmptyTable]
    /\ rearmed = {}
    /\ last_call = NoCall
    /\ calls = 0
    /\ pc = [c \in Callers |-> "idle"]
    /\ frame = [c \in Callers |-> NoFrame]
    /\ emitted = {}
    /\ detector = DefaultDetector
    /\ store \in Stores
    /\ tick = NoTick
    /\ posts = <<>>
    /\ loop = [NoLoop EXCEPT !.phase = "created"]

\* What the loop leaves unchanged.
loopFrame == <<now, cooldown_seconds, alerts, rearmed, last_call, calls, pc, frame,
               emitted, detector, store, posts>>

\* while True: await asyncio.to_thread(run_alert_check, ...): at its first
\* step or when the sleep ends, the task starts a worker and awaits it.
LoopStartTick ==
    /\ loop.phase \in {"created", "sleeping"}
    /\ loop.stop = "none"
    /\ loop' = [loop EXCEPT !.phase = "awaiting", !.worker = "running",
                            !.active = loop.active + 1]
    /\ UNCHANGED <<loopFrame, last_alerted, tick>>

\* The worker thread runs run_alert_check to its end, whether or not the
\* task still awaits it.
WorkerReturns(sinks) ==
    LET table == last_alerted["scheduler"]
        cooldown == cooldown_seconds["scheduler"]
    IN  /\ loop.worker = "running"
        /\ loop' = [loop EXCEPT !.worker = "returned", !.active = loop.active - 1]
        /\ tick' = AlertCheck(detector, store, table, now, cooldown, sinks)
        /\ last_alerted' = [last_alerted EXCEPT
                              !["scheduler"] = AlertCheckTable(detector, store, table, now,
                                                               cooldown, sinks)]
        /\ UNCHANGED loopFrame

\* run_alert_check raises: the store fetch, detect, or dispatch on a result
\* that is not NORMAL.
WorkerRaises(fault) ==
    LET result == Detect(detector, TickCounts(store), store.history)
    IN  /\ loop.worker = "running"
        /\ fault = "dispatch" => (~NothingToCheck(store) /\ result.severity # "NORMAL")
        /\ fault = "detect" => ~NothingToCheck(store)
        /\ loop' = [loop EXCEPT !.worker = "raised", !.active = loop.active - 1]
        /\ tick' = IF fault = "dispatch"
                   THEN [NoTick EXCEPT !.op = "tick", !.raised = TRUE, !.fault = fault,
                                       !.result = result, !.gauges = 1, !.gauge_calls = 1,
                                       !.dispatch_calls = 1]
                   ELSE [NoTick EXCEPT !.op = "tick", !.raised = TRUE, !.fault = fault]
        /\ UNCHANGED <<loopFrame, last_alerted>>

TickAwaited_FireAndForget(l) == TRUE

\* await asyncio.to_thread(...) resumes when the thread has ended.
TickAwaited(l) == l.worker \in {"returned", "raised"}

AfterTick_Uncaught(outcome) == IF outcome = "raised" THEN "failed" ELSE "sleeping"

\* Where the task goes when the awaited call ends: except Exception logs the
\* failure, and either way the task sleeps the interval.
AfterTick(outcome) == "sleeping"

\* The await of the worker ends, with its return or its exception.
LoopTickDone ==
    /\ loop.phase = "awaiting"
    /\ loop.stop = "none"
    /\ TickAwaited(loop)
    /\ loop' = [loop EXCEPT !.phase = AfterTick(loop.worker), !.worker = "idle"]
    /\ UNCHANGED <<loopFrame, last_alerted, tick>>

\* lifespan shutdown: _alert_task.cancel()
StopRequest ==
    /\ loop.stop = "none"
    /\ loop.phase # "failed"
    /\ loop' = [loop EXCEPT !.stop = "requested"]
    /\ UNCHANGED <<loopFrame, last_alerted, tick>>

\* CancelledError is raised in the task where it is suspended: at the sleep,
\* at the to_thread call (logged and re-raised) or before its first step.
\* The task ends; a running worker thread is not interrupted.
LoopCancelled ==
    /\ loop.stop = "requested"
    /\ loop.phase \in {"created", "awaiting", "sleeping"}
    /\ loop' = [loop EXCEPT !.phase = "finished"]
    /\ UNCHANGED <<loopFrame, last_alerted, tick>>

\* lifespan: await _alert_task returns with CancelledError, which is passed;
\* the consumer is stopped and shutdown_tracing() runs.
ShutdownProceeds ==
    /\ loop.stop = "requested"
    /\ loop.phase = "finished"
    /\ loop' = [loop EXCEPT !.stop = "shutdown"]
    /\ UNCHANGED <<loopFrame, last_alerted, tick>>

\* The worker thread ends its call.
WorkerEnds ==
    \/ \E sinks \in LoopSinks : WorkerReturns(sinks)
    \/ \E fault \in TickFaults : WorkerRaises(fault)

NextLoop ==
    \/ LoopStartTick
    \/ WorkerEnds
    \/ LoopTickDone
    \/ StopRequest
    \/ LoopCancelled
    \/ ShutdownProceeds

\* The scheduler under the event loop: a task that can run does run and a
\* cancelled task gets its CancelledError (weak fairness of the task's
\* steps); a worker thread ends its call.  WorkerEnds is enabled exactly
\* while the worker runs and ends the run, so its weak fairness is that the
\* worker is not running forever.
SpecLoop ==
    /\ InitLoop
    /\ [][NextLoop]_vars
    /\ WF_vars(LoopStartTick)
    /\ WF_vars(LoopTickDone)
    /\ WF_vars(LoopCancelled)
    /\ WF_vars(ShutdownProceeds)
    /\ []<>(loop.worker # "running")

\* A tick is running / no stop has been requested.
TickRunning == loop.worker = "running"
NoStop == loop.stop = "none"

\* C26: a tick that raises does not end the scheduler: the task goes from the
\* failed call to the sleep, and as long as no stop is requested a tick
\* starts again and again, after a failed tick as after any other.
C26_FailedTickNotFatal ==
    /\ [][(loop.phase = "awaiting" /\ loop.worker = "raised" /\ NoStop
             /\ loop'.phase # loop.phase) => loop'.phase = "sleeping"]_vars
    /\ []<>(TickRunning \/ ~NoStop)
    /\ (loop.worker = "raised" /\ NoStop) ~> (TickRunning \/ ~NoStop)

\* C26 witness: a tick running after a tick that raised in detect.
C26_Witness ==
    /\ TickRunning
    /\ NoStop
    /\ tick.raised
    /\ tick.fault = "detect"

\* C27: at most one worker runs run_alert_check, and while the task sleeps
\* or has not started a tick, none does: the delay begins after the work.
C27_SingleFlight ==
    /\ loop.active <= 1
    /\ loop.phase \in {"created", "sleeping"} => (loop.active = 0 /\ ~TickRunning)

\* C27 witness: a second tick running after a first that dispatched.
C27_Witness ==
    /\ TickRunning
    /\ loop.active = 1
    /\ tick.op = "tick"
    /\ tick.dispatch_calls = 1
    /\ ~tick.raised

\* C28: the stop is observed between ticks: the task does not end and the
\* shutdown does not proceed while a tick's work is running.
C28_StopBetweenTicks ==
    (loop.phase = "finished" \/ loop.stop = "shutdown") => ~TickRunning

\* After the stop request no tick starts.
C28_NoTickAfterStop ==
    [][~NoStop => loop'.active <= loop.active]_vars

\* ------------------------------------------------ construction arguments
\* PolicyAnomalyDetector.__init__: the arguments are stored as given.
NewDetector(z_score_threshold, critical_threshold, min_history) ==
    [z_score_threshold |-> z_score_threshold, critical_threshold |-> critical_threshold,
     min_history |-> min_history]

\* AlertDispatcher.__init__: cooldown_seconds is stored as given and the
\* cooldown table starts empty.
NewDispatcher(cooldown) == [cooldown_seconds |-> cooldown, last_alerted |-> EmptyTable]

\* Arguments a caller can construct a detector with (z-scores in
\* thousandths): the defaults, a negative warning threshold, a negative
\* critical threshold.
DetectorArgs ==
    {<<2500, 4000, 4>>, <<-1000, 4000, 4>>, <<2500, -1000, 4>>}

\* Arguments a caller can construct a dispatcher with: the default and a
\* negative cooldown.
DispatcherArgs == {DEFAULT_COOLDOWN_SECONDS, -DEFAULT_COOLDOWN_SECONDS}

\* What the store returns in the runs with constructed configurations: a
\* count for the first status, the others quiet, on the full baseline with a
\* busy last minute.
ConfigStores ==
    {st \in Stores : /\ st.current_counts # EmptyDict
                     /\ \A s \in Statuses \ {ALERT_STATUSES[1]} :
                           Get(st.current_counts, s) = 0
                     /\ Len(st.history) >= 4
                     /\ st.history[Len(st.history)] # st.history[1]}

\* The engine with a detector and a dispatcher constructed from any of the
\* arguments.
InitConfig ==
    /\ now = 0
    /\ \E a \in DetectorArgs : detector = NewDetector(a[1], a[2], a[3])
    /\ \E c \in DispatcherArgs :
          /\ cooldown_seconds = [p \in Paths |-> IF p = "scheduler"
                                                 THEN NewDispatcher(c).cooldown_seconds
                                                 ELSE DEFAULT_COOLDOWN_SECONDS]
          /\ last_alerted = [p \in Paths |-> IF p = "scheduler"
                                              THEN NewDispatcher(c).last_alerted
                                              ELSE EmptyTable]
    /\ alerts = [p \in Paths |-> EmptyTable]
    /\ rearmed = {}
    /\ last_call = NoCall
    /\ calls = 0
    /\ pc = [c \in Callers |-> "idle"]
    /\ frame = [c \in Callers |-> NoFrame]
    /\ emitted = {}
    /\ store \in ConfigStores
    /\ tick = NoTick
    /\ posts = <<>>
    /\ loop = NoLoop

\* The engine run with constructed configurations.
SpecConfig == InitConfig /\ [][NextEngine]_vars

\* C29: no detect call runs with a negative z_score_threshold or
\* critical_threshold and no dispatch call with a negative cooldown_seconds:
\* such a configuration is rejected when the object is constructed.
C29_ConfigFaultRejected ==
    /\ Detected => (detector.z_score_threshold >= 0 /\ detector.critical_threshold >= 0)
    /\ TickDispatched => cooldown_seconds["scheduler"] >= 0

\* --------------------------------------------------- POST /alerts/evaluate
\* The request bodies: a status (monitored or not), a count (the request
\* model requires count >= 0) and an optional timestamp.
EvaluateRequests ==
    [status : EvaluateStatuses \cup {"refunded"}, count : Counts,
     timestamp : {"", "given"}]

\* What can raise in the two guarded steps of the endpoint: the dispatch step
\* (constructing the dispatcher or dispatch itself) and insert_transactions.
EvaluateFaults == [dispatch : BOOLEAN, insert : BOOLEAN]

\* The sinks of the API process: the gauges are not used by the endpoint.
EvaluateSinks == {s \in SinkStates : s.gauges = "ok" /\ s.counter = "ok"}

\* The response of a request that did not reach the verdict, or failed.
NoResponse ==
    [http |-> 200, severity |-> "", z_score |-> 0, is_anomalous |-> FALSE, message |-> "",
     alert_dispatched |-> FALSE, db_inserted |-> FALSE]

\* The name datetime inside evaluate_transaction: the import at line 233
\* makes it local to the function and binds it only when no timestamp is
\* given, so line 292 raises UnboundLocalError when one is.
DatetimeBound(req) == req.timestamp = ""

\* The dispatch step, lines 306-320: a new AlertDispatcher and its dispatch,
\* inside try/except Exception; when it raises, nothing is returned.
DispatchStep(result, t, sinks, faults) ==
    IF faults.dispatch THEN SinkStart(EmptyTable)
    ELSE LET out == SinkDispatch(EmptyTable, result, t, DEFAULT_COOLDOWN_SECONDS, sinks)
         IN  IF out.raised THEN [out EXCEPT !.raised = FALSE, !.dispatched = <<>>]
             ELSE out

\* evaluate_transaction(body) on what the store returns, with the clock at
\* t: the response and what the request did.
EvaluateTransaction(req, st, t, sinks, faults) ==
    LET base == [NoTick EXCEPT !.op = "evaluate", !.status = req.status,
                               !.count = req.count, !.sinks = sinks, !.faults = faults,
                               !.clock = <<t>>, !.response = NoResponse]
    IN  IF req.status \notin {ALERT_STATUSES[i] : i \in DOMAIN ALERT_STATUSES}
        THEN [base EXCEPT !.response.http = 422]
        ELSE
        LET result == EvaluateSingle(DefaultDetector, req.status, req.count, st.history)
            verdict == [NoResponse EXCEPT !.severity = result.severity,
                                          !.z_score = result.z_score,
                                          !.is_anomalous = result.is_anomalous,
                                          !.message = result.message]
        IN  IF ~result.is_anomalous
            THEN [base EXCEPT !.result = result, !.response = verdict]
            ELSE IF ~DatetimeBound(req)
            THEN [base EXCEPT !.result = result, !.raised = TRUE, !.fault = "datetime",
                              !.response.http = 500]
            ELSE
            LET detail == [status |-> req.status, z_score |-> result.z_score,
                           is_anomalous |-> TRUE]
                anomaly_result == [max_z_score |-> Abs(result.z_score),
                                   severity |-> result.severity,
                                   anomalies |-> <<detail>>]
                out == DispatchStep(anomaly_result, t, sinks, faults)
            IN  [base EXCEPT !.result = result,
                             !.dispatch_calls = 1,
                             !.dispatched = out.dispatched, !.logs = out.logs,
                             !.incs = out.incs, !.started = out.started,
                             !.inserted = IF faults.insert THEN <<>>
                                          ELSE <<[status |-> req.status,
                                                  count |-> req.count]>>,
                             !.response = [verdict EXCEPT
                                             !.alert_dispatched = Len(out.dispatched) > 0,
                                             !.db_inserted = ~faults.insert]]

\* The API process at start: the lazily built default detector and what the
\* store holds.
InitEvaluate ==
    /\ now = 0
    /\ cooldown_seconds = [p \in Paths |-> DEFAULT_COOLDOWN_SECONDS]
    /\ last_alerted = [p \in Paths |-> EmptyTable]
    /\ alerts = [p \in Paths |-> EmptyTable]
    /\ rearmed = {}
    /\ last_call = NoCall
    /\ calls = 0
    /\ pc = [c \in Callers |-> "idle"]
    /\ frame = [c \in Callers |-> NoFrame]
    /\ emitted = {}
    /\ detector = DefaultDetector
    /\ store \in {st \in Stores : st.current_counts = EmptyDict}
    /\ tick = NoTick
    /\ posts = <<>>
    /\ loop = NoLoop

\* A request to POST /alerts/evaluate is served.
EvaluateRequest(req, sinks, faults) ==
    LET done == EvaluateTransaction(req, store, now, sinks, faults)
    IN  /\ TickIdle
        /\ calls < MaxCalls
        /\ calls' = calls + 1
        /\ tick' = done
        /\ posts' = posts \o done.started
        /\ UNCHANGED <<loop, now, cooldown_seconds, last_alerted, alerts, rearmed, last_call,
                       pc, frame, emitted, detector, store>>

NextEvaluate ==
    \/ \E req \in EvaluateRequests, sinks \in EvaluateSinks, faults \in EvaluateFaults :
          EvaluateRequest(req, sinks, faults)
    \/ TickReturn
    \/ \E i \in DOMAIN posts : PostDelivered(i)
    \/ \E i \in DOMAIN posts : PostFails(i)
    \/ EngineAdvance

\* The requests to the evaluation endpoint and the webhook threads.
SpecEvaluate == InitEvaluate /\ [][NextEvaluate]_vars

\* A request was served and its verdict is anomalous.
Evaluated == tick.op = "evaluate"
AnomalousVerdict == Evaluated /\ tick.result # <<>> /\ tick.result.is_anomalous

\* C30: an anomalous verdict is returned whatever happens to the sinks: the
\* request does not fail, dispatch and insert are both attempted, and the
\* response has alert_dispatched false exactly when the dispatch step failed
\* and db_inserted false exactly when the insert failed.
C30_VerdictDespiteSinkFailure ==
    AnomalousVerdict
        => /\ ~tick.raised
           /\ tick.response.http = 200
           /\ tick.response.severity = tick.result.severity
           /\ tick.dispatch_calls = 1
           /\ tick.response.alert_dispatched = ~tick.faults.dispatch
           /\ tick.response.db_inserted = ~tick.faults.insert
           /\ tick.faults.insert = (tick.inserted = <<>>)

\* C30 without a timestamp in the body: the request does not fail and the
\* flags are those of the steps.
C30_WithoutTimestamp ==
    (AnomalousVerdict /\ ~tick.raised)
        => /\ tick.response.http = 200
           /\ tick.response.db_inserted = ~tick.faults.insert
           /\ tick.faults.dispatch => ~tick.response.alert_dispatched

\* The sinks and the two guarded steps of a served request all worked.
HealthyRequest ==
    /\ tick.sinks.stream = "ok"
    /\ tick.sinks.webhook # "fail"
    /\ ~tick.faults.dispatch
    /\ ~tick.faults.insert

\* C31: the endpoint dispatches and inserts only for an anomalous verdict: a
\* verdict that is not anomalous has both flags false, no dispatch call and
\* no record inserted; an anomalous verdict with healthy sinks has both
\* flags true and exactly one record inserted.
C31_SideEffectsIffAnomalous ==
    /\ (Evaluated /\ tick.result # <<>> /\ ~tick.result.is_anomalous)
           => /\ ~tick.response.alert_dispatched
              /\ ~tick.response.db_inserted
              /\ tick.dispatch_calls = 0
              /\ tick.dispatched = <<>>
              /\ tick.inserted = <<>>
    /\ (AnomalousVerdict /\ HealthyRequest)
           => /\ tick.response.http = 200
              /\ tick.response.alert_dispatched
              /\ tick.response.db_inserted
              /\ Len(tick.inserted) = 1

\* C31 for the verdicts that are not anomalous alone.
C31_NothingWhenNormal ==
    (Evaluated /\ tick.result # <<>> /\ ~tick.result.is_anomalous)
        => /\ ~tick.response.alert_dispatched
           /\ ~tick.response.db_inserted
           /\ tick.dispatch_calls = 0
           /\ tick.inserted = <<>>

\* ------------------------------------- results, verdicts and dispatched severities
\* C32: max_z_score is the highest absolute z-score: for every result of
\* detect with details, max_z_score >= |z_score| of every detail.
C32_MaxIsHighestAbsolute ==
    (Detected /\ ~ShortHistory)
        => \A i \in DOMAIN tick.result.anomalies :
              tick.result.max_z_score >= Abs(tick.result.anomalies[i].z_score)

\* C33: when detect flags a status its aggregate severity is not NORMAL, and
\* a tick that gets such a result calls dispatch.
C33_FlaggedIsNotNormal ==
    (Detected /\ ~ShortHistory
       /\ \E i \in DOMAIN tick.result.anomalies : tick.result.anomalies[i].is_anomalous)
        => /\ tick.result.severity # "NORMAL"
           /\ Ticked => tick.dispatch_calls = 1

\* C34: the record the evaluate endpoint dispatches carries the severity of
\* the verdict it returns, and a log at that level is emitted for it.
C34_DispatchedAsVerdict ==
    (AnomalousVerdict /\ tick.dispatched # <<>>)
        => /\ \A i \in DOMAIN tick.dispatched :
                 tick.dispatched[i].severity = tick.result.severity
           /\ \E i \in DOMAIN tick.logs : tick.logs[i].level = tick.result.severity

\* The records dispatch emits for the result of detect on an empty cooldown
\* table, the clock past the cooldown.
WouldEmit ==
    DispatchResult(EmptyTable, tick.result,
                   [i \in 1..Len(tick.result.anomalies) |-> DEFAULT_COOLDOWN_SECONDS],
                   DEFAULT_COOLDOWN_SECONDS).dispatched

\* The highest severity among records.
HighestSeverity(records) ==
    IF \E i \in DOMAIN records : records[i].severity = "CRITICAL" THEN "CRITICAL"
    ELSE IF \E i \in DOMAIN records : records[i].severity = "WARNING" THEN "WARNING"
    ELSE "NORMAL"

\* C35: whatever thresholds the detector is configured with, the aggregate
\* severity of detect is the highest severity among the records dispatch
\* emits for the result, and every detail flagged anomalous yields a record.
C35_DispatcherAgreesWithDetector ==
    (Detected /\ ~ShortHistory)
        => /\ tick.result.severity = HighestSeverity(WouldEmit)
           /\ \A i \in DOMAIN tick.result.anomalies :
                 tick.result.anomalies[i].is_anomalous
                     => \E j \in DOMAIN WouldEmit :
                           WouldEmit[j].status = tick.result.anomalies[i].status

\* ------------------------------------------------ cooldown keys and time
\* The keys of the records the call that has just run returned.
EmittedKeys ==
    {<<last_call.dispatched[i].status, last_call.dispatched[i].severity>> :
        i \in DOMAIN last_call.dispatched}

\* C38: a dispatch changes only the entries of the keys it alerts for, on its
\* own dispatcher; and once the dispatcher has alerted for some key, a detail
\* whose (status, severity) key has no entry is alerted at once: a WARNING
\* entry of the same status or an entry of another status does not suppress it.
C38_KeysIndependent ==
    last_call.op = "dispatch"
        => LET p == last_call.path
               before == last_call.before[p]
               after == last_alerted[p]
               anomalies == last_call.result.anomalies
           IN  /\ DOMAIN before \subseteq DOMAIN after
               /\ \A k \in DOMAIN after :
                     k \notin EmittedKeys => (k \in DOMAIN before /\ after[k] = before[k])
               /\ \A q \in Paths \ {p} : last_alerted[q] = last_call.before[q]
               /\ (last_call.result.severity # "NORMAL" /\ before # EmptyTable)
                      => \A i \in DOMAIN anomalies :
                            (/\ anomalies[i].is_anomalous
                             /\ <<anomalies[i].status, SeverityForDetail(anomalies[i])>>
                                    \notin DOMAIN before)
                                => <<anomalies[i].status, SeverityForDetail(anomalies[i])>>
                                       \in EmittedKeys

\* C38 witness: an escalation inside the window: the dispatcher alerted
\* (status, WARNING) less than cooldown_seconds ago and now returns a
\* CRITICAL record for the same status.
C38_Witness ==
    /\ last_call.op = "dispatch"
    /\ \E s \in Statuses :
          /\ <<s, "WARNING">> \in DOMAIN last_call.before[last_call.path]
          /\ now - last_call.before[last_call.path][<<s, "WARNING">>]
                < cooldown_seconds[last_call.path]
          /\ <<s, "CRITICAL">> \notin DOMAIN last_call.before[last_call.path]
          /\ <<s, "CRITICAL">> \in EmittedKeys

\* ------------------------------------- a persisting incident under the loop
\* The scheduler ticking on a store that keeps returning the same counts,
\* with no stop and no failing tick.  The interval (30 s by default) is
\* shorter than a step of the clock, so a tick starts either at the clock
\* value of the one before (LoopStartTick) or one step later.

\* await asyncio.sleep(interval) returns with the clock one step further,
\* and the next tick starts.
LoopWakeLater ==
    /\ loop.phase = "sleeping"
    /\ loop.stop = "none"
    /\ now + ClockStep <= MaxTime
    /\ now' = now + ClockStep
    /\ loop' = [loop EXCEPT !.phase = "awaiting", !.worker = "running",
                            !.active = loop.active + 1]
    /\ UNCHANGED <<cooldown_seconds, last_alerted, alerts, rearmed, last_call, calls, pc,
                   frame, emitted, detector, store, tick, posts>>

NextPersist ==
    \/ LoopStartTick
    \/ LoopWakeLater
    \/ \E sinks \in LoopSinks : WorkerReturns(sinks)
    \/ LoopTickDone

\* The loop as in SpecLoop, with time passing: the sleeps of the task do
\* advance the clock as long as the clock of the model can advance.
SpecPersist ==
    /\ InitLoop
    /\ [][NextPersist]_vars
    /\ WF_vars(LoopStartTick)
    /\ WF_vars(LoopTickDone)
    /\ SF_vars(LoopWakeLater)
    /\ []<>(loop.worker # "running")

\* The cooldown keys a scheduler tick can alert for.
TickKeys == Statuses \X Severities

\* The tick that has just run called dispatch with a detail of this key
\* flagged anomalous, and returned a record for it / returned none.
TickFlagged(k) ==
    /\ TickDispatched
    /\ \E i \in DOMAIN tick.result.anomalies :
          /\ tick.result.anomalies[i].is_anomalous
          /\ tick.result.anomalies[i].status = k[1]
          /\ SeverityForDetail(tick.result.anomalies[i]) = k[2]
TickAlerted(k) ==
    /\ TickFlagged(k)
    /\ \E j \in DOMAIN tick.dispatched :
          tick.dispatched[j].status = k[1] /\ tick.dispatched[j].severity = k[2]
TickSuppressed(k) == TickFlagged(k) /\ ~TickAlerted(k)

\* C37: a suppressed dispatch leaves the key's last-dispatch time as it was,
\* and while the status stays anomalous at the same severity and the
\* scheduler keeps ticking, a suppressed alert is emitted again once the
\* cooldown window is over (as far as the clock of the model reaches).
C37_NoStarvation ==
    /\ [](\A k \in TickKeys :
             TickSuppressed(k)
                 => LastAlerted(last_alerted["scheduler"], k) = LastAlerted(tick.before, k))
    /\ \A k \in TickKeys :
          (TickSuppressed(k)
             /\ \E t \in Times :
                   t >= LastAlerted(tick.before, k) + cooldown_seconds["scheduler"])
              ~> (TickAlerted(k)
                    /\ tick.clock[1] >= LastAlerted(tick.before, k)
                                           + cooldown_seconds["scheduler"])

\* C37 witness: a key alerted a second time, a cooldown window after the
\* first.
C37_Witness ==
    \E k \in TickKeys :
        /\ TickAlerted(k)
        /\ k \in DOMAIN tick.before
        /\ tick.clock[1] = tick.before[k] + cooldown_seconds["scheduler"]

\* ------------------------------------------- dispatch with a failing step
\* One iteration of the loop of dispatch when a step after the cooldown
\* check (building alert_info, opening the span, the log call) raises for
\* the statuses in `failing`: the table has been written at line 71, and the
\* exception leaves the loop and the call.
FailingDetail(st, detail, t, cooldown, failing) ==
    IF st.raised \/ ~detail.is_anomalous THEN st
    ELSE
    LET severity == SeverityForDetail(detail)
        key == AlertKey(detail)
    IN  IF InCooldown(t, LastAlerted(st.table, key), cooldown) THEN st
        ELSE IF detail.status \in failing
        THEN [st EXCEPT !.table = SetLastAlerted(st.table, key, t), !.raised = TRUE]
        ELSE [st EXCEPT !.table = SetLastAlerted(st.table, key, t),
                        !.dispatched = Append(st.dispatched, AlertInfo(detail, severity, t)),
                        !.logs = st.logs \o AlertLogs(detail, severity),
                        !.incs = Append(st.incs, <<detail.status, severity>>)]

RECURSIVE FailingLoop(_, _, _, _, _, _)
\* for detail in result.anomalies: ...
FailingLoop(st, anomalies, t, cooldown, failing, i) ==
    IF i > Len(anomalies) THEN st
    ELSE FailingLoop(FailingDetail(st, anomalies[i], t, cooldown, failing),
                     anomalies, t, cooldown, failing, i + 1)

\* AlertDispatcher.dispatch(result) when the steps after the cooldown check
\* raise for the statuses in `failing`.
FailingDispatch(table, result, t, cooldown, failing) ==
    IF result.severity = "NORMAL" THEN SinkStart(table)
    ELSE FailingLoop(SinkStart(table), result.anomalies, t, cooldown, failing, 1)

\* The scheduler's dispatcher at start.
InitFault ==
    /\ now \in Times
    /\ cooldown_seconds = [p \in Paths |-> DEFAULT_COOLDOWN_SECONDS]
    /\ last_alerted = [p \in Paths |-> EmptyTable]
    /\ alerts = [p \in Paths |-> EmptyTable]
    /\ rearmed = {}
    /\ last_call = NoCall
    /\ calls = 0
    /\ pc = [c \in Callers |-> "idle"]
    /\ frame = [c \in Callers |-> NoFrame]
    /\ emitted = {}
    /\ detector = DefaultDetector
    /\ store = EmptyStore
    /\ tick = NoTick
    /\ posts = <<>>
    /\ loop = NoLoop

\* dispatcher.dispatch(result) on the scheduler's dispatcher; tick.dispatched
\* is the list built by the call, which the caller gets only when the call
\* returns.
DispatchCall(result, failing) ==
    LET table == last_alerted["scheduler"]
        out == FailingDispatch(table, result, now, cooldown_seconds["scheduler"], failing)
    IN  /\ TickIdle
        /\ calls < MaxCalls
        /\ calls' = calls + 1
        /\ last_alerted' = [last_alerted EXCEPT !["scheduler"] = out.table]
        /\ tick' = [NoTick EXCEPT !.op = "dispatch", !.result = result, !.before = table,
                                  !.clock = <<now>>, !.raised = out.raised,
                                  !.dispatch_calls = 1,
                                  !.dispatched = out.dispatched, !.logs = out.logs,
                                  !.incs = out.incs,
                                  !.faults = [s \in failing |-> TRUE]]
        /\ UNCHANGED <<loop, now, cooldown_seconds, alerts, rearmed, last_call, pc, frame,
                       emitted, detector, store, posts>>

NextFault ==
    \/ \E result \in AnomalyResult, failing \in SUBSET Statuses : DispatchCall(result, failing)
    \/ TickReturn
    \/ EngineAdvance

\* Calls of dispatch whose steps after the cooldown check can raise.
SpecFault == InitFault /\ [][NextFault]_vars

\* The keys whose entry the call that has just run wrote.
WrittenKeys ==
    {k \in DOMAIN last_alerted["scheduler"] :
        k \notin DOMAIN tick.before \/ last_alerted["scheduler"][k] # tick.before[k]}

\* C36: the cooldown table records a dispatch only when the alert was
\* emitted: a call in which processing a detail raised after the cooldown
\* check has written no entry but those of the alerts it emitted.
C36_TableOnlyWhenEmitted ==
    (tick.op = "dispatch" /\ tick.raised)
        => \A k \in WrittenKeys :
              \E i \in DOMAIN tick.dispatched :
                  k = <<tick.dispatched[i].status, tick.dispatched[i].severity>>

\* C36 for the calls in which nothing raised.
C36_TableWhenNothingRaised ==
    (tick.op = "dispatch" /\ ~tick.raised)
        => \A k \in WrittenKeys :
              \E i \in DOMAIN tick.dispatched :
                  k = <<tick.dispatched[i].status, tick.dispatched[i].severity>>

\* ---------------------------------------------------- POST /alerts/analyze
\* _severity_for_status(z_score), with the default threshold 2.5; z-scores
\* in hundredths.
SeverityForStatus(z_score) ==
    IF Abs(z_score) > CRITICAL_Z THEN "CRITICAL"
    ELSE IF Abs(z_score) > WARNING_Z THEN "WARNING"
    ELSE "NORMAL"

\* An AnomalyAlert of the response, built from a detail of the result.
AnomalyAlertOf(detail) ==
    [status |-> detail.status, severity |-> SeverityForStatus(detail.z_score),
     z_score |-> detail.z_score, is_anomalous |-> detail.is_anomalous]

\* analyze_transactions() on what the store returns: the AlertResponse.
AnalyzeTransactions(st, gauges) ==
    IF NothingToCheck(st)
    THEN [NoTick EXCEPT !.op = "analyze",
                        !.response = [max_z_score |-> 0, overall_severity |-> "NORMAL",
                                      alerts |-> <<>>]]
    ELSE
    LET result == Detect(DefaultDetector, TickCounts(st), st.history)
        metrics == UpdateAnomalyMetrics(result, gauges)
    IN  [NoTick EXCEPT !.op = "analyze", !.result = result, !.gauges = metrics.pushed,
                       !.gauge_calls = 1,
                       !.response = [max_z_score |-> result.max_z_score,
                                     overall_severity |-> result.severity,
                                     alerts |-> [i \in DOMAIN result.anomalies |->
                                                    AnomalyAlertOf(result.anomalies[i])]]]

\* The API process at start, with what the store holds.
InitAnalyze ==
    /\ now = 0
    /\ cooldown_seconds = [p \in Paths |-> DEFAULT_COOLDOWN_SECONDS]
    /\ last_alerted = [p \in Paths |-> EmptyTable]
    /\ alerts = [p \in Paths |-> EmptyTable]
    /\ rearmed = {}
    /\ last_call = NoCall
    /\ calls = 0
    /\ pc = [c \in Callers |-> "idle"]
    /\ frame = [c \in Callers |-> NoFrame]
    /\ emitted = {}
    /\ detector = DefaultDetector
    /\ store \in Stores
    /\ tick = NoTick
    /\ posts = <<>>
    /\ loop = NoLoop

\* A request to POST /alerts/analyze is served.
AnalyzeRequest(gauges) ==
    /\ TickIdle
    /\ tick' = AnalyzeTransactions(store, gauges)
    /\ UNCHANGED <<loop, now, cooldown_seconds, last_alerted, alerts, rearmed, last_call, calls,
                   pc, frame, emitted, detector, store, posts>>

NextAnalyze ==
    \/ \E gauges \in {"ok", "fail"} : AnalyzeRequest(gauges)
    \/ TickReturn

\* The requests to the analysis endpoint.
SpecAnalyze == InitAnalyze /\ [][NextAnalyze]_vars

\* C39: in the response of /alerts/analyze an entry is WARNING or CRITICAL
\* only if it is flagged anomalous, and the overall severity is NORMAL only
\* if every entry is NORMAL.
C39_EntriesConsistent ==
    tick.op = "analyze"
        => LET entries == tick.response.alerts
           IN  /\ \A i \in DOMAIN entries :
                     entries[i].severity # "NORMAL" => entries[i].is_anomalous
               /\ tick.response.overall_severity = "NORMAL"
                     => \A i \in DOMAIN entries : entries[i].severity = "NORMAL"

====
